---- MODULE Spec2Model ----
(***************************************************************************)
(* State-machine model of serial::SerialListener (src/src/serial_listener.cc) *)
(* reading from a serial::Serial byte source (src/src/impl/unix.cc).        *)
(*                                                                         *)
(* Threads: the caller of startListening/stopListening, any thread calling *)
(* createFilter/removeFilter/removeAllFilters, the producer (listen), the   *)
(* consumer (callback), and the device delivering bytes.                   *)
(***************************************************************************)
EXTENDS Integers, Sequences, FiniteSets, TLC

(* ---------------------------- bounds ----------------------------------- *)
MaxBytes == 2       \* bytes the device delivers over the whole run
MaxFilters == 2     \* filters created over the whole run
MaxStream == 8      \* length of the byte streams fed to the read loop alone
MaxPortLen == 6     \* length of the port names given to the byte source

(* ------------------------ program constants ---------------------------- *)
chunk_size_ == 5    \* SerialListener::SerialListener, chunk_size_(5)
BufSize == 1024     \* char buf[1024] of SerialImpl::read

CR == "\r"                       \* the default delimiter, delimeter_tokenizer("\r")
Bytes == {"A", CR}               \* the bytes the device may deliver
NULL == "NULL"

\* The predicates (comparator_) a caller may register.
Comparators == {"is_empty", "starts_with_A"}

VARIABLES
  listening,       \* SerialListener::listening
  serial_port_,    \* SerialListener::serial_port_ : NULL or "port"
  isOpen_,         \* SerialImpl::isOpen_ of the Serial last passed to startListening
  device,          \* bytes waiting in the device (fd_), oldest first
  sent,            \* number of bytes the device has delivered so far
  data_buffer,     \* SerialListener::data_buffer
  filters,         \* SerialListener::filters : sequence of filter ids
  comparator_,     \* Filter::comparator_ of every filter created so far
  callback_queue,  \* SerialListener::callback_queue : sequence of <filter, token>
  filter_mux,      \* holder of SerialListener::filter_mux
  ppc,             \* position of the producer thread (listen_thread)
  new_tokens,      \* local `new_tokens` of listen / filterNewTokens
  cpc,             \* position of the consumer thread (callback_thread)
  pair,            \* local `pair` of callback
  executing,       \* number of filter callbacks being executed
  mpc,             \* position of the thread calling startListening/stopListening
  stop_was_listening, \* value of `listening` when the running stopListening was called
  terminated,      \* "no", or why the process was killed
  completed,       \* history: tokens completed by tokenize since the last stop
  invoked,         \* history: callback invocations of the current listening
  pre_start,       \* history: filters registered when listening began and still registered
  port_,           \* SerialImpl::port_ : the port name, a sequence of characters
  fd_,             \* SerialImpl::fd_ : -1, or the descriptor of the opened device
  stream,          \* history: the bytes read() has returned so far
  thrown           \* what the last byte-source operation threw, or "none"

vars == <<listening, serial_port_, isOpen_, device, sent, data_buffer, filters,
          comparator_, callback_queue, filter_mux, ppc, new_tokens, cpc, pair,
          executing, mpc, stop_was_listening, terminated, completed, invoked,
          pre_start, port_, fd_, stream, thrown>>

listenerVars == <<listening, serial_port_, data_buffer, filters, callback_queue>>
producerVars == <<ppc, new_tokens>>
consumerVars == <<cpc, pair, executing>>
callerVars   == <<mpc, stop_was_listening>>
deviceVars   == <<isOpen_, device, sent>>
historyVars  == <<completed, invoked, pre_start>>
serialVars   == <<port_, fd_, stream, thrown>>

NoPair == [filter |-> 0, token |-> <<>>, idx |-> 0]

\* SerialListener::default_filter, made by the constructor (line 47) from
\* default_comparator and default_handler. It is a member of its own, not an
\* element of `filters`; the filters createFilter makes are numbered from 1.
default_filter == 0

(* ------------------------- pure functions ------------------------------- *)

\* Index of the first delimiter in s, or 0.
RECURSIVE FindDelim(_, _)
FindDelim(s, i) ==
  IF i > Len(s) THEN 0
  ELSE IF s[i] = CR THEN i
  ELSE FindDelim(s, i + 1)

\* delimeter_tokenizer("\r"): boost::split of the buffer on the delimiter; the
\* result always has a last element, the fragment after the last delimiter.
RECURSIVE tokenize(_)
tokenize(s) ==
  LET d == FindDelim(s, 1) IN
  IF d = 0 THEN <<s>>
  ELSE <<SubSeq(s, 1, d - 1)>> \o tokenize(SubSeq(s, d + 1, Len(s)))

\* The outcome of calling a filter's comparator_ on a token:
\*   is_empty       token == ""           (true or false)
\*   starts_with_A  token.at(0) == 'A'    (at() throws on an empty token)
Compare(kind, token) ==
  CASE kind = "is_empty" -> IF Len(token) = 0 THEN "true" ELSE "false"
    [] kind = "starts_with_A" ->
         IF Len(token) = 0 THEN "throw"
         ELSE IF token[1] = "A" THEN "true" ELSE "false"

Min(a, b) == IF a < b THEN a ELSE b

Last(s) == s[Len(s)]

\* std::find(filters.begin(), filters.end(), f): index of f, or 0 for end().
RECURSIVE Find(_, _, _)
Find(s, f, i) ==
  IF i > Len(s) THEN 0
  ELSE IF s[i] = f THEN i
  ELSE Find(s, f, i + 1)

\* vector::erase of the element at index i.
Erase(s, i) == SubSeq(s, 1, i - 1) \o SubSeq(s, i + 1, Len(s))

Running == terminated = "no"

(* ------------------------------ Init ------------------------------------ *)
Init ==
  /\ listening = FALSE
  /\ serial_port_ = NULL
  /\ isOpen_ = FALSE
  /\ device = <<>>
  /\ sent = 0
  /\ data_buffer = <<>>
  /\ filters = <<>>
  /\ comparator_ = <<>>
  /\ callback_queue = <<>>
  /\ filter_mux = "free"
  /\ ppc = "none"
  /\ new_tokens = <<>>
  /\ cpc = "none"
  /\ pair = NoPair
  /\ executing = 0
  /\ mpc = "ready"
  /\ stop_was_listening = FALSE
  /\ terminated = "no"
  /\ completed = <<>>
  /\ invoked = <<>>
  /\ pre_start = {}
  /\ port_ = <<>>
  /\ fd_ = -1
  /\ stream = <<>>
  /\ thrown = "none"

(* --------------- the thread calling startListening / stopListening ------- *)

\* A startListening without the test of `listening`: it starts a second pair
\* of threads while the first consumer may be inside a callback.
StartListeningWhileListening(open) ==
  /\ Running
  /\ UNCHANGED serialVars
  /\ mpc = "ready"
  /\ listening' = TRUE
  /\ serial_port_' = "port"
  /\ isOpen_' = open
  /\ IF ~open
     THEN UNCHANGED <<ppc, cpc, pre_start>>
     ELSE /\ ppc' = "loop"
          /\ cpc' = "loop"
          /\ pre_start' = {filters[i] : i \in 1..Len(filters)}
  /\ UNCHANGED <<data_buffer, filters, callback_queue, new_tokens, pair,
                 executing, device, sent, mpc, stop_was_listening, comparator_,
                 filter_mux, terminated, completed, invoked>>

\* SerialListener::startListening(serial_port), with serial_port.isOpen() = open.
StartListening(open) ==
  /\ Running
  /\ UNCHANGED serialVars
  /\ mpc = "ready"
  /\ IF listening
     THEN UNCHANGED <<listening, serial_port_, isOpen_, ppc, cpc, pre_start>>
     ELSE /\ listening' = TRUE
          /\ serial_port_' = "port"
          /\ isOpen_' = open
          /\ IF ~open
             THEN UNCHANGED <<ppc, cpc, pre_start>>
             ELSE /\ ppc' = "loop"
                  /\ cpc' = "loop"
                  /\ pre_start' = {filters[i] : i \in 1..Len(filters)}
  /\ UNCHANGED <<data_buffer, filters, callback_queue, new_tokens, pair,
                 executing, device, sent, mpc, stop_was_listening, comparator_,
                 filter_mux, terminated, completed, invoked>>

\* SerialListener::stopListening, line 106: listening = false.
StopListening ==
  /\ Running
  /\ UNCHANGED serialVars
  /\ mpc = "ready"
  /\ listening' = FALSE
  /\ stop_was_listening' = listening
  /\ mpc' = "join_listen"
  /\ invoked' = <<>>
  /\ pre_start' = {}
  /\ UNCHANGED <<serial_port_, data_buffer, filters, callback_queue,
                 producerVars, consumerVars, deviceVars, completed,
                 comparator_, filter_mux, terminated>>

\* line 108: listen_thread.join() returns once the producer thread has ended
\* (at once when there is no such thread).
JoinListen ==
  /\ Running
  /\ UNCHANGED serialVars
  /\ mpc = "join_listen"
  /\ ppc \in {"none", "exited", "caught"}
  /\ ppc' = "none"
  /\ mpc' = "join_callback"
  /\ UNCHANGED <<listenerVars, new_tokens, consumerVars, stop_was_listening,
                 deviceVars, historyVars, comparator_, filter_mux, terminated>>

\* A removeAllFilters that clears the registry and forgets the queue.
removeAllFiltersKeepingQueue ==
  /\ filter_mux = "free"
  /\ filters' = <<>>
  /\ callback_queue' = callback_queue

\* SerialListener::removeAllFilters: under filter_mux, clear the registry and
\* the dispatch queue.
removeAllFilters ==
  /\ filter_mux = "free"
  /\ filters' = <<>>
  /\ callback_queue' = <<>>

\* A stopListening that forgets to clear the accumulation buffer.
JoinCallbackKeepingBuffer ==
  /\ Running
  /\ UNCHANGED serialVars
  /\ mpc = "join_callback"
  /\ cpc \in {"none", "exited"}
  /\ cpc' = "none"
  /\ serial_port_' = NULL
  /\ isOpen_' = FALSE
  /\ removeAllFilters
  /\ mpc' = "ready"
  /\ stop_was_listening' = FALSE
  /\ completed' = <<>>
  /\ invoked' = <<>>
  /\ pre_start' = {}
  /\ UNCHANGED <<listening, data_buffer, producerVars, pair, executing, device, sent,
                 comparator_, filter_mux, terminated>>

\* A stopListening that does not wait for the consumer thread.
JoinCallbackWithoutJoin ==
  /\ Running
  /\ UNCHANGED serialVars
  /\ mpc = "join_callback"
  /\ cpc' = "none"
  /\ data_buffer' = <<>>
  /\ serial_port_' = NULL
  /\ isOpen_' = FALSE
  /\ removeAllFilters
  /\ mpc' = "ready"
  /\ stop_was_listening' = FALSE
  /\ completed' = <<>>
  /\ invoked' = <<>>
  /\ pre_start' = {}
  /\ UNCHANGED <<listening, producerVars, pair, executing, device, sent,
                 comparator_, filter_mux, terminated>>

\* lines 109-115: callback_thread.join() returns once the consumer thread has
\* ended; then clear the buffer, forget the port, remove all the filters.
\* isOpen_ belongs to the Serial that is forgotten here: the next startListening
\* brings its own Serial, so the field is reset with the pointer.
JoinCallback ==
  /\ Running
  /\ UNCHANGED serialVars
  /\ mpc = "join_callback"
  /\ cpc \in {"none", "exited"}
  /\ cpc' = "none"
  /\ data_buffer' = <<>>
  /\ serial_port_' = NULL
  /\ isOpen_' = FALSE
  /\ removeAllFilters
  /\ mpc' = "ready"
  /\ stop_was_listening' = FALSE
  /\ completed' = <<>>
  /\ invoked' = <<>>
  /\ pre_start' = {}
  /\ UNCHANGED <<listening, producerVars, pair, executing, device, sent,
                 comparator_, filter_mux, terminated>>

(* ------------------- filter operations, from any thread ----------------- *)

\* SerialListener::createFilter(comparator, callback).
CreateFilter(kind) ==
  /\ Running
  /\ UNCHANGED serialVars
  /\ filter_mux = "free"
  /\ Len(comparator_) < MaxFilters
  /\ comparator_' = Append(comparator_, kind)
  /\ filters' = Append(filters, Len(comparator_) + 1)
  /\ UNCHANGED <<listening, serial_port_, data_buffer, callback_queue,
                 producerVars, consumerVars, callerVars, deviceVars,
                 historyVars, filter_mux, terminated>>

\* A removeFilter that also purges the queued matches of the filter.
RemoveFilterPurgingQueue(f) ==
  /\ Running
  /\ UNCHANGED serialVars
  /\ filter_mux = "free"
  /\ Find(filters, f, 1) # 0
  /\ filters' = Erase(filters, Find(filters, f, 1))
  /\ callback_queue' = LET Other(e) == e.filter # f
                       IN SelectSeq(callback_queue, Other)
  /\ pre_start' = pre_start \ {f}
  /\ UNCHANGED <<listening, serial_port_, data_buffer,
                 producerVars, consumerVars, callerVars, deviceVars,
                 completed, invoked, comparator_, filter_mux, terminated>>

\* SerialListener::removeFilter(filter_ptr) with filter_ptr in the registry.
RemoveFilter(f) ==
  /\ Running
  /\ UNCHANGED serialVars
  /\ filter_mux = "free"
  /\ Find(filters, f, 1) # 0
  /\ filters' = Erase(filters, Find(filters, f, 1))
  /\ pre_start' = pre_start \ {f}
  /\ UNCHANGED <<listening, serial_port_, data_buffer, callback_queue,
                 producerVars, consumerVars, callerVars, deviceVars,
                 completed, invoked, comparator_, filter_mux, terminated>>

\* SerialListener::removeFilter(filter_ptr) with filter_ptr not in the registry:
\* std::find returns end() and filters.erase(end()) is undefined behaviour.
\* With a non-empty vector the usual build destroys the last element; a checked
\* build, or an empty vector, ends the process (and the history with it).
RemoveMissingFilter(f) ==
  /\ Running
  /\ UNCHANGED serialVars
  /\ filter_mux = "free"
  /\ f <= Len(comparator_)
  /\ Find(filters, f, 1) = 0
  /\ \/ /\ filters # <<>>
        /\ filters' = Erase(filters, Len(filters))
        /\ pre_start' = pre_start \ {Last(filters)}
        /\ UNCHANGED terminated
        /\ UNCHANGED <<completed, invoked>>
     \/ /\ terminated' = "erase(end())"
        /\ completed' = <<>>
        /\ invoked' = <<>>
        /\ pre_start' = {}
        /\ UNCHANGED filters
  /\ UNCHANGED <<listening, serial_port_, data_buffer, callback_queue,
                 producerVars, consumerVars, callerVars, deviceVars,
                 comparator_, filter_mux>>

\* SerialListener::removeAllFilters called by a user thread.
RemoveAllFilters ==
  /\ Running
  /\ UNCHANGED serialVars
  /\ removeAllFilters
  /\ pre_start' = {}
  /\ UNCHANGED <<listening, serial_port_, data_buffer, producerVars,
                 consumerVars, callerVars, deviceVars, completed, invoked,
                 comparator_, filter_mux, terminated>>

(* --------------------- the producer thread: listen ---------------------- *)

\* SerialImpl::read(size), lines 215-251, on a device holding `avail`: while
\* the message is shorter than size, append what ::read returns (up to
\* sizeof(buf) bytes); leave the loop when select times out.
RECURSIVE read(_, _, _)
read(msg, avail, size) ==
  IF Len(msg) < size /\ avail # <<>>
  THEN LET k == Min(BufSize, Len(avail)) IN
       read(msg \o SubSeq(avail, 1, k), SubSeq(avail, k + 1, Len(avail)), size)
  ELSE msg

\* A sweep whose inner loop pushes the matches of a filter newest token first.
RECURSIVE filterNewTokensNewestFirst(_, _, _, _, _, _)
filterNewTokensNewestFirst(fs, cmp, tokens, base, i, t) ==
  IF i > Len(fs) THEN [pushed |-> <<>>, threw |-> FALSE]
  ELSE IF t >= Len(tokens)
       THEN filterNewTokensNewestFirst(fs, cmp, tokens, base, i + 1, 1)
  ELSE LET r == Compare(cmp[fs[i]], tokens[t]) IN
       IF r = "throw" THEN [pushed |-> <<>>, threw |-> TRUE]
       ELSE LET rest == filterNewTokensNewestFirst(fs, cmp, tokens, base, i, t + 1)
                entry == [filter |-> fs[i], token |-> tokens[t], idx |-> base + t]
            IN IF r = "true"
               THEN [pushed |-> rest.pushed \o <<entry>>, threw |-> rest.threw]
               ELSE rest

\* filterNewTokens / filter, lines 144-163: for each filter in registry order,
\* for each token but the last, call the comparator and push a match. The
\* result is the entries pushed, and whether a comparator threw (which ends
\* the loops). `base` is the stream position before the first of `tokens`.
RECURSIVE filterNewTokens(_, _, _, _, _, _)
filterNewTokens(fs, cmp, tokens, base, i, t) ==
  IF i > Len(fs) THEN [pushed |-> <<>>, threw |-> FALSE]
  ELSE IF t >= Len(tokens) THEN filterNewTokens(fs, cmp, tokens, base, i + 1, 1)
  ELSE LET r == Compare(cmp[fs[i]], tokens[t]) IN
       IF r = "throw" THEN [pushed |-> <<>>, threw |-> TRUE]
       ELSE LET rest == filterNewTokens(fs, cmp, tokens, base, i, t + 1)
                entry == [filter |-> fs[i], token |-> tokens[t], idx |-> base + t]
            IN IF r = "true"
               THEN [pushed |-> <<entry>> \o rest.pushed, threw |-> rest.threw]
               ELSE rest

\* The sweep of the new tokens against the registry as it is now.
Sweep ==
  filterNewTokens(filters, comparator_, new_tokens,
                  Len(completed) - (Len(new_tokens) - 1), 1, 1)

\* listen, line 169: the loop ends when listening is false.
ListenExit ==
  /\ Running
  /\ UNCHANGED serialVars
  /\ ppc = "loop"
  /\ ~listening
  /\ ppc' = "exited"
  /\ UNCHANGED <<listenerVars, new_tokens, consumerVars, callerVars,
                 deviceVars, historyVars, comparator_, filter_mux, terminated>>

\* listen, lines 169-182: read some data, append it to data_buffer, tokenize
\* the buffer and enter filterNewTokens, taking filter_mux (line 142).
ListenRead ==
  /\ Running
  /\ UNCHANGED serialVars
  /\ ppc = "loop"
  /\ listening
  /\ serial_port_ # NULL
  /\ isOpen_
  /\ filter_mux = "free"
  /\ LET temp == read(<<>>, device, chunk_size_) IN
       /\ temp # <<>>
       /\ device' = SubSeq(device, Len(temp) + 1, Len(device))
       /\ data_buffer' = data_buffer \o temp
       /\ new_tokens' = tokenize(data_buffer')
       /\ completed' = completed \o SubSeq(new_tokens', 1, Len(new_tokens') - 1)
  /\ filter_mux' = "producer"
  /\ ppc' = "sweep"
  /\ UNCHANGED <<listening, serial_port_, filters, callback_queue,
                 consumerVars, callerVars, isOpen_, sent, invoked,
                 pre_start, comparator_, terminated>>

\* listen, lines 172-175: the read times out with nothing read, and the loop
\* goes round.
ListenReadNothing ==
  /\ Running
  /\ UNCHANGED serialVars
  /\ ppc = "loop"
  /\ listening
  /\ serial_port_ # NULL
  /\ isOpen_
  /\ UNCHANGED vars

\* The read fails: read throws at line 243 (the device is disconnected: select
\* reports readiness and ::read returns no data), or at line 213 when the port
\* has been closed under the listener (readSomeData, lines 133-135, reports
\* that to handle_exc and goes on to call read). Both throw a string literal,
\* which the handler of listen (catch std::exception, line 186) does not catch:
\* the exception leaves the thread function and the process is terminated. The
\* history ends with the process.
ListenReadFails ==
  /\ Running
  /\ UNCHANGED serialVars
  /\ ppc = "loop"
  /\ listening
  /\ serial_port_ # NULL
  /\ isOpen_
  /\ terminated' = "uncaught exception from read"
  /\ ppc' = "uncaught"
  /\ completed' = <<>>
  /\ invoked' = <<>>
  /\ pre_start' = {}
  /\ UNCHANGED <<listenerVars, new_tokens, consumerVars, callerVars,
                 deviceVars, comparator_, filter_mux>>

\* filterNewTokens, lines 144-149: no comparator throws; the matches are on the
\* queue, the last token goes back into data_buffer, the lock is released.
FilterNewTokens ==
  /\ Running
  /\ UNCHANGED serialVars
  /\ ppc = "sweep"
  /\ ~Sweep.threw
  /\ callback_queue' = callback_queue \o Sweep.pushed
  /\ data_buffer' = Last(new_tokens)
  /\ filter_mux' = "free"
  /\ new_tokens' = <<>>
  /\ ppc' = "loop"
  /\ UNCHANGED <<listening, serial_port_, filters, consumerVars, callerVars,
                 deviceVars, completed, invoked, pre_start,
                 comparator_, terminated>>

\* filter, line 161: a comparator throws. Nothing between it and the handler
\* of listen, lines 186-188, catches: the matches pushed so far stay, the lock
\* is released by unwinding, the exception is passed to handle_exc and the
\* thread function returns.
FilterThrows ==
  /\ Running
  /\ UNCHANGED serialVars
  /\ ppc = "sweep"
  /\ Sweep.threw
  /\ callback_queue' = callback_queue \o Sweep.pushed
  /\ filter_mux' = "free"
  /\ new_tokens' = <<>>
  /\ ppc' = "caught"
  /\ UNCHANGED <<listening, serial_port_, data_buffer, filters, consumerVars,
                 callerVars, deviceVars, completed, invoked,
                 pre_start, comparator_, terminated>>

(* -------------------- the consumer thread: callback --------------------- *)

\* callback, line 64: while (this->listening).
CallbackLoop ==
  /\ Running
  /\ UNCHANGED serialVars
  /\ cpc = "loop"
  /\ cpc' = IF listening THEN "wait" ELSE "exited"
  /\ UNCHANGED <<listenerVars, producerVars, pair, executing, callerVars, deviceVars,
                 historyVars, comparator_, filter_mux, terminated>>

\* lines 65-70: timed_wait_and_pop delivers the oldest entry; if still
\* listening, the filter's callback_ is entered, else the entry is dropped.
QueuePop ==
  /\ Running
  /\ UNCHANGED serialVars
  /\ cpc = "wait"
  /\ callback_queue # <<>>
  /\ callback_queue' = Tail(callback_queue)
  /\ LET e == Head(callback_queue) IN
     IF listening
     THEN /\ cpc' = "in_callback"
          /\ pair' = e
          /\ executing' = executing + 1
          /\ invoked' = Append(invoked, [filter |-> e.filter, idx |-> e.idx,
                                         after_removal |-> Find(filters, e.filter, 1) = 0])
     ELSE /\ cpc' = "loop"
          /\ UNCHANGED <<pair, executing, invoked>>
  /\ UNCHANGED <<listening, serial_port_, data_buffer, filters, producerVars,
                 callerVars, deviceVars, completed,
                 pre_start, comparator_, filter_mux, terminated>>

\* line 65: timed_wait_and_pop times out on an empty queue.
QueueTimeout ==
  /\ Running
  /\ UNCHANGED serialVars
  /\ cpc = "wait"
  /\ callback_queue = <<>>
  /\ cpc' = "loop"
  /\ UNCHANGED <<listenerVars, producerVars, pair, executing, callerVars, deviceVars,
                 historyVars, comparator_, filter_mux, terminated>>

\* line 70: the callback returns.
CallbackReturn ==
  /\ Running
  /\ UNCHANGED serialVars
  /\ cpc = "in_callback"
  /\ cpc' = "loop"
  /\ pair' = NoPair
  /\ executing' = executing - 1
  /\ UNCHANGED <<listenerVars, producerVars, callerVars, deviceVars,
                 historyVars, comparator_, filter_mux, terminated>>

\* lines 71-73: the callback throws a std::exception, which is passed to
\* handle_exc; the loop goes on.
CallbackThrows ==
  /\ Running
  /\ UNCHANGED serialVars
  /\ cpc = "in_callback"
  /\ cpc' = "loop"
  /\ pair' = NoPair
  /\ executing' = executing - 1
  /\ UNCHANGED <<listenerVars, producerVars, callerVars, deviceVars,
                 historyVars, comparator_, filter_mux, terminated>>

\* line 70: the callback throws something that is not a std::exception, such
\* as the string literals the Serial of this repository throws (unix.cc, lines
\* 206, 213, 243) when the callback uses the port. Neither handler of callback
\* (lines 71 and 76, both catch std::exception) catches it: the exception
\* leaves the thread function and the process is terminated.
CallbackThrowsUncaught ==
  /\ Running
  /\ UNCHANGED serialVars
  /\ cpc = "in_callback"
  /\ cpc' = "uncaught"
  /\ terminated' = "uncaught exception from callback"
  /\ completed' = <<>>
  /\ invoked' = <<>>
  /\ pre_start' = {}
  /\ UNCHANGED <<listenerVars, producerVars, pair, executing, callerVars,
                 deviceVars, comparator_, filter_mux>>

(* ------------------------------ the device ------------------------------ *)

\* The device delivers one more byte to the open port.
DeviceSend(b) ==
  /\ Running
  /\ UNCHANGED serialVars
  /\ serial_port_ # NULL
  /\ isOpen_
  /\ sent < MaxBytes
  /\ device' = Append(device, b)
  /\ sent' = sent + 1
  /\ UNCHANGED <<listenerVars, producerVars, consumerVars, callerVars, isOpen_,
                 historyVars, comparator_, filter_mux, terminated>>

(* ---------------------------- specification ----------------------------- *)

Producer ==
  \/ ListenExit
  \/ ListenRead
  \/ ListenReadNothing
  \/ ListenReadFails
  \/ FilterNewTokens
  \/ FilterThrows

Consumer ==
  \/ CallbackLoop
  \/ QueuePop
  \/ QueueTimeout
  \/ CallbackReturn
  \/ CallbackThrows
  \/ CallbackThrowsUncaught

Stopping ==
  \/ JoinListen
  \/ JoinCallback

Next ==
  \/ \E open \in BOOLEAN : StartListening(open)
  \/ StopListening
  \/ Stopping
  \/ \E kind \in Comparators : CreateFilter(kind)
  \/ \E f \in 1..MaxFilters : RemoveFilter(f)
  \/ \E f \in 1..MaxFilters : RemoveMissingFilter(f)
  \/ RemoveAllFilters
  \/ Producer
  \/ Consumer
  \/ \E b \in Bytes : DeviceSend(b)

Spec == Init /\ [][Next]_vars

\* Scheduling: every thread that can take a step of its own code eventually
\* takes it; a read of a device that holds data eventually returns it; a
\* running callback eventually returns or throws a std::exception. Nothing
\* forces a read to fail or a callback to throw anything else.
Fairness ==
  /\ WF_vars(ListenExit)
  /\ WF_vars(ListenRead)
  /\ WF_vars(FilterNewTokens \/ FilterThrows)
  /\ WF_vars(CallbackLoop)
  /\ WF_vars(QueuePop \/ QueueTimeout)
  /\ WF_vars(CallbackReturn \/ CallbackThrows)
  /\ WF_vars(JoinListen)
  /\ WF_vars(JoinCallback)

FairSpec == Spec /\ Fairness

(* --------------- the read loop alone, on a given byte stream ------------ *)

\* The byte streams of at most MaxStream bytes.
Streams == UNION {[1..n -> Bytes] : n \in 0..MaxStream}

\* The sizes a caller may ask read for; determineAmountToRead asks for chunk_size_.
Sizes == 1..MaxStream

\* A carry that forgets the fragment after the last delimiter.
CarryDroppingFragment(buffer, temp) ==
  LET toks == tokenize(buffer \o temp) IN
  [offered |-> SubSeq(toks, 1, Len(toks) - 1), data_buffer |-> <<>>]

\* One turn of the loop of listen on a non-empty read: data_buffer += temp
\* (line 177), tokenize (line 180), every token but the last is offered to the
\* filters (lines 156-159) and the last goes back into data_buffer (line 148).
Carry(buffer, temp) ==
  LET toks == tokenize(buffer \o temp) IN
  [offered |-> SubSeq(toks, 1, Len(toks) - 1), data_buffer |-> Last(toks)]

\* An open port whose device will deliver the bytes of `device`; no filter is
\* registered and only the read loop runs.
ReadInit ==
  /\ device \in Streams
  /\ isOpen_ = TRUE
  /\ stream = <<>>
  /\ data_buffer = <<>>
  /\ completed = <<>>
  /\ listening = FALSE
  /\ serial_port_ = NULL
  /\ sent = 0
  /\ filters = <<>>
  /\ comparator_ = <<>>
  /\ callback_queue = <<>>
  /\ filter_mux = "free"
  /\ ppc = "none"
  /\ new_tokens = <<>>
  /\ cpc = "none"
  /\ pair = NoPair
  /\ executing = 0
  /\ mpc = "ready"
  /\ stop_was_listening = FALSE
  /\ terminated = "no"
  /\ invoked = <<>>
  /\ pre_start = {}
  /\ port_ = <<>>
  /\ fd_ = 3
  /\ thrown = "none"

\* read(size) is called when the first k bytes of the stream have arrived, and
\* what it returns goes through one turn of the loop of listen.
ReadChunk(k, size) ==
  /\ isOpen_
  /\ k <= Len(device)
  /\ LET temp == read(<<>>, SubSeq(device, 1, k), size) IN
       /\ device' = SubSeq(device, Len(temp) + 1, Len(device))
       /\ stream' = stream \o temp
       /\ data_buffer' = Carry(data_buffer, temp).data_buffer
       /\ completed' = completed \o Carry(data_buffer, temp).offered
  /\ UNCHANGED <<listening, serial_port_, filters, callback_queue, isOpen_,
                 sent, producerVars, consumerVars, callerVars, invoked,
                 pre_start, comparator_, filter_mux, terminated, port_, fd_, thrown>>

ReadNext == \E k \in 1..MaxStream, size \in Sizes : ReadChunk(k, size)

ReadSpec == ReadInit /\ [][ReadNext]_vars

(* ------------------ the byte source alone: open and close ---------------- *)

\* The port names of at most MaxPortLen characters; <<>> is the empty name.
PortNames == UNION {[1..n -> {"t", "y"}] : n \in 0..MaxPortLen}

\* What the byte-source operations leave alone.
engineVars == <<listenerVars, producerVars, consumerVars, callerVars, device,
                sent, historyVars, comparator_, filter_mux, terminated, stream>>

\* SerialImpl::open, lines 46-64, where ::open on the device succeeds iff ok.
\* It throws "error" when port_ is not empty (line 47) and when isOpen_ is
\* false (line 50); a throw leaves the fields as they are. Past the two tests
\* it opens the device, throws "Error" if that failed (fd_ == -1), else
\* reconfigures the port and sets isOpen_.
Open(ok) ==
  /\ IF port_ # <<>>
     THEN thrown' = "error" /\ UNCHANGED <<fd_, isOpen_>>
     ELSE IF isOpen_ = FALSE
     THEN thrown' = "error" /\ UNCHANGED <<fd_, isOpen_>>
     ELSE IF ~ok
     THEN thrown' = "Error" /\ fd_' = -1 /\ UNCHANGED isOpen_
     ELSE thrown' = "none" /\ fd_' = 3 /\ isOpen_' = TRUE
  /\ UNCHANGED <<port_, engineVars>>

\* SerialImpl::SerialImpl(port, ...), lines 28-39: fd_(-1), isOpen_(false),
\* port_(port), and open() when the name is not empty. open() then throws at
\* line 47, the exception leaves the constructor and no new object comes to
\* be: the source at hand stays what it was. With an empty name the new
\* object is closed.
SerialImpl(port) ==
  /\ IF port # <<>>
     THEN thrown' = "error" /\ UNCHANGED <<port_, fd_, isOpen_>>
     ELSE thrown' = "none" /\ port_' = port /\ fd_' = -1 /\ isOpen_' = FALSE
  /\ UNCHANGED engineVars

\* SerialImpl::setPort, lines 259-262.
SetPort(port) ==
  /\ port_' = port
  /\ thrown' = "none"
  /\ UNCHANGED <<fd_, isOpen_, engineVars>>

\* SerialImpl::close, lines 180-188.
Close ==
  /\ IF isOpen_ = TRUE
     THEN fd_' = -1 /\ isOpen_' = FALSE
     ELSE UNCHANGED <<fd_, isOpen_>>
  /\ thrown' = "none"
  /\ UNCHANGED <<port_, engineVars>>

OpenNext ==
  \/ \E ok \in BOOLEAN : Open(ok)
  \/ \E port \in PortNames : SerialImpl(port)
  \/ \E port \in PortNames : SetPort(port)
  \/ Close

\* A byte source constructed with an empty port name, then used.
OpenSpec == Init /\ [][OpenNext]_vars

(* ------------------------------- claims --------------------------------- *)

Registry == {filters[i] : i \in 1..Len(filters)}

\* C1: the matches are enqueued in token order across filters: every entry
\* for token i is pushed before any entry for token i+1. The queue is FIFO, so
\* in every state its entries are in non-decreasing token order.
C1_TokenOrderAcrossFilters ==
  \A p, q \in 1..Len(callback_queue) :
    p < q => callback_queue[p].idx <= callback_queue[q].idx

\* Number of invocations of filter f's callback with token i.
Invocations(f, i) ==
  Cardinality({k \in 1..Len(invoked) : invoked[k].filter = f /\ invoked[k].idx = i})

\* The producer has finished with every token completed so far, the queue is
\* drained and no callback is running.
Quiescent ==
  /\ Running
  /\ listening
  /\ mpc = "ready"
  /\ ppc \in {"loop", "caught"}
  /\ callback_queue = <<>>
  /\ cpc \in {"loop", "wait"}

\* C2: for filters registered before startListening and still registered,
\* while listening goes on: once the work is drained, every completed token
\* that a filter's predicate accepts has had that filter's callback invoked
\* exactly once, and for one token the callbacks ran in registration order.
C2_EveryMatchInvokedOnceInOrder ==
  Quiescent =>
    /\ \A f \in pre_start : \A i \in 1..Len(completed) :
         Compare(comparator_[f], completed[i]) = "true" => Invocations(f, i) = 1
    /\ \A p, q \in 1..Len(invoked) :
         (p < q /\ invoked[p].idx = invoked[q].idx
            /\ {invoked[p].filter, invoked[q].filter} \subseteq pre_start)
         => invoked[p].filter < invoked[q].filter

\* The statement of C2 restricted to runs in which no comparator has thrown.
C2_HoldsWhileNoComparatorThrows ==
  (Quiescent /\ ppc # "caught") => C2_EveryMatchInvokedOnceInOrder

\* C3: a startListening call that fails (already listening, or the port is not
\* open) leaves the engine state unchanged.
C3_FailedStartLeavesStateUnchanged ==
  [][ (\E open \in BOOLEAN : StartListening(open) /\ (listening \/ ~open))
      => UNCHANGED <<listening, serial_port_, ppc, cpc>> ]_vars

\* The matches of a sweep in which a throwing comparator counts as a non-match
\* for that filter and that token only.
RECURSIVE IsolatedMatches(_, _, _, _, _, _)
IsolatedMatches(fs, cmp, tokens, base, i, t) ==
  IF i > Len(fs) THEN <<>>
  ELSE IF t >= Len(tokens) THEN IsolatedMatches(fs, cmp, tokens, base, i + 1, 1)
  ELSE LET rest == IsolatedMatches(fs, cmp, tokens, base, i, t + 1)
           entry == [filter |-> fs[i], token |-> tokens[t], idx |-> base + t]
       IN IF Compare(cmp[fs[i]], tokens[t]) = "true"
          THEN <<entry>> \o rest
          ELSE rest

\* C4: a predicate that throws during the sweep is a non-match for that filter
\* and token only: the sweep goes on with the other tokens and filters, the
\* buffer is set to the remainder and the producer goes back to its loop.
C4_ThrowingPredicateIsNonMatch ==
  [][ (ppc = "sweep" /\ ppc' # "sweep")
      => /\ ppc' = "loop"
         /\ data_buffer' = Last(new_tokens)
         /\ callback_queue' = callback_queue \o
              IsolatedMatches(filters, comparator_, new_tokens,
                              Len(completed) - (Len(new_tokens) - 1), 1, 1) ]_vars

\* C5: when a read fails while listening, the producer catches the error and
\* the engine leaves the Listening state: the process goes on and the
\* listening flag is false.
C5_ReadFailureLeavesListening ==
  ppc = "uncaught" => (Running /\ ~listening)

\* C6: stopListening, called while listening from a thread that is neither
\* worker, always returns, given reads that time out and callbacks that return,
\* also when createFilter, removeFilter or removeAllFilters run concurrently.
C6_StopListeningReturns ==
  (mpc = "join_listen" /\ stop_was_listening /\ ppc # "none")
    ~> (mpc = "ready" \/ terminated = "uncaught exception from read"
                      \/ terminated = "uncaught exception from callback")

\* The two joins and the final clear never block for good: stopListening
\* returns unless the process is killed under it.
C6_StopReturnsUnlessProcessKilled ==
  (mpc = "join_listen") ~> (mpc = "ready" \/ ~Running)

\* The engine is Idle: not listening, and no startListening or stopListening
\* call in progress.
Idle == ~listening /\ mpc = "ready"

\* C7: when stopListening returns the engine is Idle with an empty registry, an
\* empty accumulation buffer and an empty dispatch queue and both threads
\* joined; and an Idle engine never holds a partial token or a queued match, so
\* none is carried into the next listening.
C7_StopLeavesEngineIdleAndEmpty ==
  /\ [][ (mpc = "join_callback" /\ mpc' = "ready")
         => (~listening' /\ filters' = <<>> /\ data_buffer' = <<>>
             /\ callback_queue' = <<>>) ]_vars
  /\ [](Idle => (data_buffer = <<>> /\ callback_queue = <<>>
                 /\ ppc = "none" /\ cpc = "none"))

\* stopListening is about to return from an engine that was listening and
\* holds a partial token, a queued match and a registered filter.
C7_Witness ==
  /\ mpc = "join_callback"
  /\ stop_was_listening
  /\ cpc = "exited"
  /\ data_buffer # <<>>
  /\ callback_queue # <<>>
  /\ filters # <<>>

\* C8: stopListening called while the engine is not listening is a no-op: its
\* return leaves the listening flag, the registry, the queue and the buffer
\* as they are.
C8_StopWhileIdleIsNoOp ==
  [][ (mpc = "join_callback" /\ mpc' = "ready" /\ ~stop_was_listening)
      => UNCHANGED <<listening, filters, callback_queue, data_buffer>> ]_vars

\* C9: removeFilter with a handle that is not in the registry is a no-op: the
\* registry and the queue are unchanged and no error is raised.
C9_RemoveMissingFilterIsNoOp ==
  [][ (\E f \in 1..MaxFilters : RemoveMissingFilter(f))
      => UNCHANGED <<filters, callback_queue, terminated>> ]_vars

\* The filters created so far that are no longer in the registry. A handle is
\* never registered twice, so a filter once removed stays in this set.
Unregistered == {f \in 1..Len(comparator_) : f \notin Registry}

\* C10: once removeFilter(F) has returned no entry for F is pushed on the
\* queue any more, and removeFilter itself leaves the queue as it is (the
\* entries of F already queued stay, and their callbacks are still invoked).
C10_RemoveFilterPreventsOnlyFutureMatches ==
  [][ /\ \A k \in (Len(callback_queue) + 1)..Len(callback_queue') :
           callback_queue'[k].filter \notin Unregistered
      /\ (\E f \in 1..MaxFilters : RemoveFilter(f))
           => callback_queue' = callback_queue ]_vars

\* The callback of a removed filter F is running on an entry queued before the
\* removal, while the producer holds the lock for a sweep of a later token that
\* F's predicate accepts, and the sweep pushes nothing. F is the only filter
\* ever created, so it left the registry through removeFilter(F), before the
\* producer took the lock.
C10_Witness ==
  /\ Running
  /\ listening
  /\ cpc = "in_callback"
  /\ Len(comparator_) = 1
  /\ pair.filter \in Unregistered
  /\ invoked[Len(invoked)].after_removal
  /\ ppc = "sweep"
  /\ \E t \in 1..(Len(new_tokens) - 1) :
       Compare(comparator_[pair.filter], new_tokens[t]) = "true"
  /\ Sweep.pushed = <<>>

\* C11: every completed token that no registered filter accepts is delivered
\* to the default-token handler: once the work is drained, the callback of
\* default_filter has been invoked with each such token.
C11_UnmatchedTokenReachesDefaultHandler ==
  Quiescent =>
    \A i \in 1..Len(completed) :
      (\A f \in Registry : Compare(comparator_[f], completed[i]) # "true")
        => Invocations(default_filter, i) >= 1

\* C12: an error raised by a callback never stops the consumer loop: whenever
\* a callback ends, by returning or by throwing, the process goes on and the
\* consumer is back at the head of its loop.
C12_CallbackErrorNeverStopsConsumer ==
  [][ (cpc = "in_callback" /\ cpc' # "in_callback")
      => (terminated' = "no" /\ cpc' = "loop") ]_vars

\* C13: chunk-invariance of the tokenize-and-carry loop: however the stream is
\* split into read chunks, the tokens offered so far followed by the buffer
\* are the tokens of the bytes read so far tokenized at once; so the offered
\* tokens are those of the whole input and the buffer is the fragment after
\* the last delimiter.
C13_ChunkInvariance ==
  completed \o <<data_buffer>> = tokenize(stream)

\* "AA\rAA" has been read and "AA\r" is still to come: the token "AA" has
\* been offered and the fragment "AA" is carried into the next read.
C13_Witness ==
  /\ stream = <<"A", "A", CR, "A", "A">>
  /\ device = <<"A", "A", CR>>
  /\ completed = << <<"A", "A">> >>
  /\ data_buffer = <<"A", "A">>

\* C14: read(size) returns at most size bytes, whatever is available.
C14_ReadReturnsAtMostSize ==
  [][ \A k \in 1..MaxStream, size \in Sizes :
        ReadChunk(k, size) => Len(stream') - Len(stream) <= size ]_vars

\* C15: at most one filter callback executes at any time.
C15_AtMostOneCallbackExecutes ==
  executing <= 1

\* A callback is executing while a match of another filter waits in the queue.
C15_Witness ==
  /\ Running
  /\ executing = 1
  /\ cpc = "in_callback"
  /\ \E k \in 1..Len(callback_queue) : callback_queue[k].filter # pair.filter

\* C16: stopListening is synchronous: when it returns both threads have
\* exited and no callback is executing; while there is no consumer thread no
\* callback executes; a callback is entered only by the consumer thread of a
\* listening engine; and a consumer thread comes to be only through a
\* startListening that succeeds.
C16_StopIsSynchronous ==
  /\ [][ (mpc = "join_callback" /\ mpc' = "ready")
         => (ppc' = "none" /\ cpc' = "none" /\ executing' = 0) ]_vars
  /\ [](cpc = "none" => executing = 0)
  /\ [][ executing' > executing => (cpc = "wait" /\ listening) ]_vars
  /\ [][ (cpc = "none" /\ cpc' # "none")
         => (~listening /\ listening' /\ isOpen_') ]_vars

\* stopListening is waiting in callback_thread.join() while a callback that
\* was running when it was called is still executing.
C16_Witness ==
  /\ Running
  /\ mpc = "join_callback"
  /\ stop_was_listening
  /\ cpc = "in_callback"
  /\ executing = 1

\* C17: the producer never holds two locks at once; in particular nothing is
\* pushed onto the dispatch queue (which takes the queue's own lock) while
\* the producer holds filter_mux.
C17_ProducerHoldsAtMostOneLock ==
  [][ Len(callback_queue') > Len(callback_queue)
      => filter_mux # "producer" ]_vars

\* C18: removeAllFilters empties the registry and the dispatch queue in one
\* step with respect to the sweep: at its return both are empty, and from a
\* state where both are empty the queue stays empty as long as the registry
\* does.
C18_RemoveAllFiltersIsAtomic ==
  /\ [][ RemoveAllFilters
         => (filters' = <<>> /\ callback_queue' = <<>>) ]_vars
  /\ [][ (filters = <<>> /\ callback_queue = <<>> /\ filters' = <<>>)
         => callback_queue' = <<>> ]_vars

\* removeAllFilters is about to run on a busy engine: a filter is registered,
\* a match is queued, a callback is executing and the producer, between two
\* sweeps, has more bytes to read.
C18_Witness ==
  /\ Running
  /\ listening
  /\ filter_mux = "free"
  /\ filters # <<>>
  /\ callback_queue # <<>>
  /\ cpc = "in_callback"
  /\ ppc = "loop"
  /\ device # <<>>

\* C19: per-filter stream order: the invocations of one filter's callback are
\* in the order in which their tokens were completed.
C19_PerFilterStreamOrder ==
  \A p, q \in 1..Len(invoked) :
    (p < q /\ invoked[p].filter = invoked[q].filter)
      => invoked[p].idx < invoked[q].idx

\* A filter's callback has been invoked for two tokens of different read
\* cycles, with an invocation of another matching filter in between.
C19_Witness ==
  \E p, r, q \in 1..Len(invoked) :
    /\ p < r /\ r < q
    /\ invoked[p].filter = invoked[q].filter
    /\ invoked[r].filter # invoked[p].filter

\* C20: open() on a byte source that is not open, has a non-empty port name
\* and whose device can be opened leaves isOpen() true; constructing the
\* source with a non-empty port name opens it; isOpen() turns false only by
\* close(), and is false after close().
C20_OpenLeavesSourceOpen ==
  /\ [][ (Open(TRUE) /\ isOpen_ = FALSE /\ port_ # <<>>)
         => (thrown' = "none" /\ isOpen_' = TRUE) ]_vars
  /\ [][ \A port \in PortNames \ {<<>>} :
           SerialImpl(port) => (thrown' = "none" /\ isOpen_' = TRUE /\ port_' = port) ]_vars
  /\ [][ (isOpen_ = TRUE /\ isOpen_' = FALSE) => Close ]_vars
  /\ [][ Close => isOpen_' = FALSE ]_vars

====
